---- MODULE Spec2Model ----
(***************************************************************************)
(* A model of light2d, a 2-D light-transport renderer: ray/shape           *)
(* intersection (Circle, SimpleEntity, FlatAggregate), the ConstantLight   *)
(* material, the PathTracer integrator and the tile-parallel render        *)
(* driver.                                                                 *)
(*                                                                         *)
(* Numbers.  The program computes in float32.  The model computes on an    *)
(* integer grid: positions and direction components are integers, ray      *)
(* directions are axis-aligned with a length in DirLens, and a ray         *)
(* parameter t is stored as the integer TScale * t, so that the division   *)
(* by |d| is exact.  sqrt rounds down to the grid (ISqrt), as float32 sqrt *)
(* rounds to its own grid.  +inf is the number Inf, larger than every      *)
(* finite value the model computes.                                        *)
(***************************************************************************)
EXTENDS Integers, Sequences, FiniteSets, TLC

VARIABLES
    \* ---- intersection protocol (shapes, materials, entities) ----
    entities,      \* FlatAggregate.entities: the ordered children
    ray,           \* the Ray array: o, d, t_max
    interaction,   \* the SurfaceInteraction array: p, n, li, attenuation, d_out
    last,          \* the most recent intersect call: what was called, on what, its result
    \* ---- render driver (core/image.py) ----
    integrator,    \* the PathTracer: n_samples, n_steps, russian_roulette_q
    args,          \* render's arguments: region, film_size, n_tiles, and the master RNG
                   \* state the call started from
    master,        \* the state of the driver's RNG (NumPy's global generator)
    pc,            \* where the driver is: "call", "pool", "returned", "raised"
    process_args,  \* the (tile_region, tile_size, random_seed) triples
    tile_indices,  \* the ((row_min, row_max), (col_min, col_max)) pixel ranges
    status,        \* per task of pool.map: "queued", "running", "done", "failed"
    wrng,          \* per running task: the RNG state of the worker process rendering it
    tiles,         \* per task: the tile its worker returned
    film,          \* the film array, pixel -> value
    writes,        \* per film pixel, how many times the assembly wrote it
    overtaken,     \* whether some task has ended while an earlier one was still running
    \* ---- PathTracer trace (integrators/path_tracer.py) ----
    tpc,           \* where trace is: "idle", "running", "returned"
    step,          \* iterations of the guaranteed-steps loop completed
    li_sum,        \* trace's li_sum
    net_attenuation, \* trace's net_attenuation
    tlog,          \* what trace has done: intersect and get_scattered_ray calls, and the
                   \* last Russian-roulette draw and its outcome
    \* ---- PathTracer integrate (integrators/path_tracer.py) ----
    ipc,           \* where integrate is: "idle", "start", "sampling", "tracing",
                   \* "finish", "returned"
    pixel,         \* integrate's argument region
    angle_order,   \* the shuffled angle_order array
    angle_k,       \* k, the index into angle_order
    cell,          \* (row, col) of the loops
    samples,       \* the rays drawn so far: their cell, the k read and the angular bin
    pix_sum,       \* integrate's li_sum
    valid_count,   \* integrate's valid_count
    result,        \* integrate's return value
    \* ---- aligned_box_union and bounds (core/utils.py, entities/flat_aggregate.py) ----
    boxes,         \* the boxes handed to aligned_box_union
    upc,           \* "idle", then how the call ended: "returned" or "raised"
    ucall,         \* which call was made: "union" or "bounds"
    union_box      \* the box returned

isectVars == <<entities, ray, interaction, last>>
renderVars ==
    <<integrator, args, master, pc, process_args, tile_indices, status, wrng, tiles, film,
      writes, overtaken>>
traceVars == <<tpc, step, li_sum, net_attenuation, tlog>>
integrateVars ==
    <<ipc, pixel, angle_order, angle_k, cell, samples, pix_sum, valid_count, result>>
boundsVars == <<boxes, upc, ucall, union_box>>

\* --------------------------------------------------------------------------
\* Bounds of the model
\* --------------------------------------------------------------------------
MaxCoord == 2
MaxChildren == 2
MaxFilm == 3
MaxTiles == 2
MaxGridTiles == 3
MaxSeed == 1
MaxSteps == 2
MaxSamples == 2
MaxBoxes == 2
RngMod == 8

\* --------------------------------------------------------------------------
\* Numbers
\* --------------------------------------------------------------------------
Inf == 1000
NegInf == 0 - Inf

Abs(x) == IF x < 0 THEN 0 - x ELSE x
Sq(x) == x * x
Dot(a, b) == a[1] * b[1] + a[2] * b[2]
Sub(a, b) == <<a[1] - b[1], a[2] - b[2]>>

\* floor of the square root of x >= 0
ISqrt(x) == CHOOSE s \in 0..x : s * s <= x /\ (s + 1) * (s + 1) > x

Norm(v) == ISqrt(Dot(v, v))

RECURSIVE Gcd(_, _)
Gcd(a, b) == IF b = 0 THEN a ELSE Gcd(b, a % b)

\* v / |v| as the primitive integer vector of v's direction (a unit vector and the
\* primitive vector of its direction determine each other); 0/0 is NaN, kept as <<0, 0>>
Normalized(v) ==
    LET g == Gcd(Abs(v[1]), Abs(v[2]))
    IN  IF g = 0 THEN <<0, 0>> ELSE <<v[1] \div g, v[2] \div g>>

\* lengths of the ray directions of the model
DirLens == {1, 2}
\* ray parameters are stored as TScale * t: the least scale dividing exactly by every |d|
TScale ==
    CHOOSE n \in 1..4 :
        /\ \A l \in DirLens : n % l = 0
        /\ \A m \in 1..(n - 1) : \E l \in DirLens : m % l # 0

Dirs ==
    {<<0, 0>>} \cup
    UNION {{<<l, 0>>, <<0 - l, 0>>, <<0, l>>, <<0, 0 - l>>} : l \in DirLens}

Coords == (0 - MaxCoord)..MaxCoord

\* a field of np.empty that nothing has written yet
Uninit == <<>>

EmptyInteraction ==
    [p |-> Uninit, n |-> Uninit, li |-> Uninit, attenuation |-> Uninit, d_out |-> Uninit]

\* --------------------------------------------------------------------------
\* Circle.intersect  (shapes/circle.py)
\* --------------------------------------------------------------------------
\* `return False`: nothing has been written
MissResets(r, i) == [hit |-> FALSE, ray |-> r, interaction |-> EmptyInteraction]
Miss(r, i) == [hit |-> FALSE, ray |-> r, interaction |-> i]

\* line 49: `if not t1 < t_max: return False`
T1MissesLe(t1, t_max) == ~(t1 <= t_max)
T1Misses(t1, t_max) == ~(t1 < t_max)

\* line 55: `if 0 < t2 < t_max`
T2Positive(t2, t_max) == 0 < t2
T2InRange(t2, t_max) == 0 < t2 /\ t2 < t_max

\* (x / d_norm) in the ray-parameter scale; exact for d_norm in DirLens
ParamDiv(x, d_norm) == (TScale * x) \div d_norm

\* o + d * t with t in the ray-parameter scale
PointAt(o, d, t) == <<o[1] + (d[1] * t) \div TScale, o[2] + (d[2] * t) \div TScale>>

CircleIntersect(center, radius, r, i) ==
    LET o == r.o
        d == r.d
        d_norm == Norm(d)
    IN  \* d_norm = 0: d / d_norm is NaN, so d_oc and delta are NaN and
        \* `not delta >= 0` is true
        IF d_norm = 0 THEN Miss(r, i)
        ELSE
        LET d_normalized == <<d[1] \div d_norm, d[2] \div d_norm>>
            t_max == r.t_max
            oc == Sub(center, o)
            d_oc == Dot(d_normalized, oc)
            delta == Sq(d_oc) - Dot(oc, oc) + Sq(radius)
        IN  IF ~(delta >= 0) THEN Miss(r, i)
            ELSE
            LET sqrt_delta == ISqrt(delta)
                t1 == ParamDiv(d_oc - sqrt_delta, d_norm)
                t2 == ParamDiv(d_oc + sqrt_delta, d_norm)
            IN  IF T1Misses(t1, t_max) THEN Miss(r, i)
                ELSE IF ~(0 < t1) /\ ~T2InRange(t2, t_max) THEN Miss(r, i)
                ELSE
                LET t == IF 0 < t1 THEN t1 ELSE t2
                    p == PointAt(o, d, t)
                    n == Normalized(Sub(p, center))
                IN  [hit |-> TRUE,
                     ray |-> [r EXCEPT !.t_max = t],
                     interaction |-> [i EXCEPT !.p = p, !.n = n]]

\* --------------------------------------------------------------------------
\* ConstantLight.scatter  (materials/constant_light.py)
\* --------------------------------------------------------------------------
\* a material that passes the light on: attenuation 1 and d_out the ray's direction
ScatterOnwards(li, r, i) ==
    [i EXCEPT !.li = li, !.attenuation = <<1, 1, 1>>, !.d_out = r.d]
\* lines 30-33: li and attenuation are written, d_out is not
ConstantLightScatter(li, r, i) ==
    [i EXCEPT !.li = li, !.attenuation = <<NegInf, NegInf, NegInf>>]

\* --------------------------------------------------------------------------
\* SimpleEntity.intersect  (entities/simple_entity.py)
\* --------------------------------------------------------------------------
SimpleEntityIntersect(e, r, i) ==
    LET s == CircleIntersect(e.center, e.radius, r, i)
    IN  IF ~s.hit THEN Miss(r, i)
        ELSE [hit |-> TRUE, ray |-> s.ray,
              interaction |-> ConstantLightScatter(e.li, s.ray, s.interaction)]

\* --------------------------------------------------------------------------
\* FlatAggregate.intersect  (entities/flat_aggregate.py)
\* --------------------------------------------------------------------------
\* The loop of lines 35-36 from child k on.  `a or f()` does not evaluate f() once a
\* is true, so a child is invoked only while is_intersected is still false.
\* calls lists the children invoked, in order.
RECURSIVE FlatAggregateLoop(_, _, _, _, _, _)
FlatAggregateLoop(children, k, r, i, is_intersected, calls) ==
    IF k > Len(children)
    THEN [hit |-> is_intersected, ray |-> r, interaction |-> i, calls |-> calls]
    ELSE IF is_intersected
         THEN FlatAggregateLoop(children, k + 1, r, i, TRUE, calls)
         ELSE LET c == SimpleEntityIntersect(children[k], r, i)
              IN  FlatAggregateLoop(children, k + 1, c.ray, c.interaction, c.hit,
                                    Append(calls, k))

FlatAggregateIntersect(children, r, i) ==
    FlatAggregateLoop(children, 1, r, i, FALSE, <<>>)

\* --------------------------------------------------------------------------
\* The scenes and rays of the model
\* --------------------------------------------------------------------------
\* SimpleEntity(Circle(center, radius), ConstantLight(li)); li in tenths
EntityPool ==
    { [center |-> <<0, 0>>, radius |-> 1, li |-> <<6, 8, 10>>],
      [center |-> <<0, 0>>, radius |-> 2, li |-> <<1, 1, 1>>],
      [center |-> <<2, 0>>, radius |-> 1, li |-> <<0, 3, 0>>] }

Scenes == UNION {[1..n -> EntityPool] : n \in 0..MaxChildren}

\* t_max of a fresh ray is +inf (path_tracer.py lines 59, 121); a caller may pass any
\* t_max >= 0
InitTMax == {0, 3 * TScale, Inf}

Rays == [o : Coords \X Coords, d : Dirs, t_max : InitTMax]

NoCall ==
    [kind |-> "none", child |-> 0, ret |-> FALSE, calls |-> <<>>,
     ray |-> [o |-> <<0, 0>>, d |-> <<0, 0>>, t_max |-> 0], interaction |-> EmptyInteraction]

IdleIntersect ==
    /\ entities = <<>>
    /\ ray = [o |-> <<0, 0>>, d |-> <<0, 0>>, t_max |-> 0]
    /\ interaction = EmptyInteraction
    /\ last = NoCall

InitIntersect ==
    /\ entities \in Scenes
    /\ ray \in Rays
    /\ interaction = EmptyInteraction
    /\ last = NoCall

Called(kind, child, res, calls) ==
    /\ ray' = res.ray
    /\ interaction' = res.interaction
    /\ last' = [kind |-> kind, child |-> child, ret |-> res.hit, calls |-> calls,
                ray |-> ray, interaction |-> interaction]
    /\ UNCHANGED entities
    /\ UNCHANGED <<renderVars, traceVars, integrateVars, boundsVars>>

\* a call of the intersect function of child k's shape
CallCircle ==
    \E k \in 1..Len(entities) :
        Called("circle", k,
               CircleIntersect(entities[k].center, entities[k].radius, ray, interaction),
               <<>>)

\* a call of the intersect function of child k
CallSimpleEntity ==
    \E k \in 1..Len(entities) :
        Called("simple", k, SimpleEntityIntersect(entities[k], ray, interaction), <<>>)

\* a call of the aggregate's intersect function
CallFlatAggregate ==
    LET res == FlatAggregateIntersect(entities, ray, interaction)
    IN  Called("aggregate", 0, res, res.calls)

NextIntersect == CallCircle \/ CallSimpleEntity \/ CallFlatAggregate

\* --------------------------------------------------------------------------
\* PathTracer.__init__  (integrators/path_tracer.py)
\* --------------------------------------------------------------------------
\* a fraction num / den as <<num, den>>, den > 0
RatLess(a, b) == a[1] * b[2] < b[1] * a[2]

\* __init__ stores its arguments converted to uint32 and float32 and checks nothing.
\* The model passes n_samples, n_steps >= 0, which np.uint32 keeps.
PathTracerInit(n_samples, n_steps, q) ==
    [n_samples |-> n_samples, n_steps |-> n_steps, russian_roulette_q |-> q]

\* --------------------------------------------------------------------------
\* render  (core/image.py)
\* --------------------------------------------------------------------------
NaN == Inf + Inf

\* np.random.randint on the driver's generator and the draws of a worker's generator:
\* a deterministic generator, here a linear congruential one
RngNext(s) == (5 * s + 3) % RngMod

RECURSIVE RngAdvance(_, _)
RngAdvance(s, n) == IF n = 0 THEN s ELSE RngAdvance(RngNext(s), n - 1)

\* line 40: np.random.seed(random_seed) sets the worker's generator, whatever it held
ReseedSkipped(pre, random_seed) == pre
Reseed(pre, random_seed) == random_seed

\* line 53: integrate(pixel_region), a deterministic function of the generator's state
\* and the pixel's region (for a fixed scene and integrator); kept symbolic
IntegratePixel(rng, pixel_region) == <<rng, pixel_region>>

\* -(-a // b) for b > 0
CeilDiv(a, b) == 0 - ((0 - a) \div b)

\* np.linspace(a, b, n + 1)[i], rounded down to the grid
Linspace(a, b, n, i) ==
    IF a = NaN \/ b = NaN THEN NaN
    ELSE IF n = 0 THEN a
    ELSE a + (i * (b - a)) \div n

\* np.arange(n_tiles + 1) * tile_size, with the last entry overwritten by the film's
\* size (lines 61-63 and 67-69); entry i, from 0
TileRange(size, n_tiles, i) ==
    IF i = n_tiles THEN size ELSE i * CeilDiv(size, n_tiles)

\* lines 64-65 and 70-71: (size - c) / size * lo + c / size * hi, rounded down to the
\* grid; 0 / 0 is NaN
TileWorld(size, c, lo, hi) ==
    IF size = 0 THEN NaN ELSE ((size - c) * lo + c * hi) \div size

\* the master generator's state after drawing k seeds, and the k-th seed drawn (from 1)
SeedAt(m, k) == RngAdvance(m, k)

\* lines 73-91: the k-th triple and the k-th pixel range, k from 1 in row-major order
TileIJ(k, n_tiles) == <<(k - 1) \div n_tiles, (k - 1) % n_tiles>>

MakeProcessArg(a, m, k) ==
    LET W == a.film_size[1]
        H == a.film_size[2]
        T == a.n_tiles
        i == TileIJ(k, T)[1]
        j == TileIJ(k, T)[2]
        x_min == TileWorld(W, TileRange(W, T, j), a.region[1][1], a.region[2][1])
        x_max == TileWorld(W, TileRange(W, T, j + 1), a.region[1][1], a.region[2][1])
        y_min == TileWorld(H, TileRange(H, T, i), a.region[1][2], a.region[2][2])
        y_max == TileWorld(H, TileRange(H, T, i + 1), a.region[1][2], a.region[2][2])
    IN  [region |-> <<<<x_min, y_min>>, <<x_max, y_max>>>>,
         size |-> <<TileRange(W, T, j + 1) - TileRange(W, T, j),
                    TileRange(H, T, i + 1) - TileRange(H, T, i)>>,
         seed |-> SeedAt(m, k)]

MakeTileIndex(a, k) ==
    LET i == TileIJ(k, a.n_tiles)[1]
        j == TileIJ(k, a.n_tiles)[2]
    IN  <<<<TileRange(a.film_size[2], a.n_tiles, i), TileRange(a.film_size[2], a.n_tiles, i + 1)>>,
          <<TileRange(a.film_size[1], a.n_tiles, j), TileRange(a.film_size[1], a.n_tiles, j + 1)>>>>

\* render_tile (lines 35-55) raises when np.empty or np.linspace is given a negative size
TileRaises(params) == params.size[1] < 0 \/ params.size[2] < 0

\* render_tile (lines 35-55) from a generator state: pixels in row-major order, one
\* integrate call each
RenderPixels(params, rng0) ==
    LET w == params.size[1]
        h == params.size[2]
        x(c) == Linspace(params.region[1][1], params.region[2][1], w, c)
        y(r) == Linspace(params.region[1][2], params.region[2][2], h, r)
    IN  [px \in (0..(h - 1)) \X (0..(w - 1)) |->
            IntegratePixel(RngAdvance(rng0, px[1] * w + px[2]),
                           <<<<x(px[2]), y(px[1])>>, <<x(px[2] + 1), y(px[1] + 1)>>>>)]

RenderTile(params, pre) == RenderPixels(params, Reseed(pre, params.seed))

RngStates == 0..(RngMod - 1)

NoFilm == <<>>

\* the pixels of film[row_min:row_max, col_min:col_max] of an H x W film
SlicePixels(idx, W, H) ==
    {px \in (0..(H - 1)) \X (0..(W - 1)) :
        /\ idx[1][1] <= px[1] /\ px[1] < idx[1][2]
        /\ idx[2][1] <= px[2] /\ px[2] < idx[2][2]}

\* the shape (rows, columns) of that slice
SliceShape(idx, W, H) ==
    LET Clip(v, n) == IF v < 0 THEN 0 ELSE IF v > n THEN n ELSE v
        Len1(lo, hi, n) == IF Clip(hi, n) > Clip(lo, n) THEN Clip(hi, n) - Clip(lo, n) ELSE 0
    IN  <<Len1(idx[1][1], idx[1][2], H), Len1(idx[2][1], idx[2][2], W)>>

\* lines 95-97 for the first k tiles: film and writes after the stores, in order
RECURSIVE AssembleUpTo(_, _, _, _, _)
AssembleUpTo(k, tls, idxs, W, H) ==
    IF k = 0
    THEN [film |-> [px \in (0..(H - 1)) \X (0..(W - 1)) |-> Uninit],
          writes |-> [px \in (0..(H - 1)) \X (0..(W - 1)) |-> 0]]
    ELSE LET prev == AssembleUpTo(k - 1, tls, idxs, W, H)
             idx == idxs[k]
             inside == SlicePixels(idx, W, H)
         IN  [film |-> [px \in DOMAIN prev.film |->
                          IF px \in inside
                          THEN tls[k][<<px[1] - idx[1][1], px[2] - idx[2][1]>>]
                          ELSE prev.film[px]],
              writes |-> [px \in DOMAIN prev.writes |->
                          IF px \in inside THEN prev.writes[px] + 1 ELSE prev.writes[px]]]

\* the store of line 97 raises when tile k's shape does not broadcast to the slice's
\* shape: each dimension must be the slice's, or 1
StoreRaises(params, idx, W, H) ==
    LET shape == SliceShape(idx, W, H)
    IN  \/ params.size[2] \notin {shape[1], 1}
        \/ params.size[1] \notin {shape[2], 1}

Regions == { <<<<-2, -2>>, <<2, 2>>>>, <<<<1, 0>>, <<1, 4>>>> }

Integrators ==
    { PathTracerInit(1, 3, <<1, 20>>), PathTracerInit(0, 3, <<1, 20>>),
      PathTracerInit(1, 0, <<1, 1>>) }

IdleRenderWith(integrators) ==
    /\ integrator \in integrators
    /\ args = [region |-> <<<<0, 0>>, <<0, 0>>>>, film_size |-> <<0, 0>>, n_tiles |-> 0,
               master |-> 0]
    /\ master = 0
    /\ pc = "idle"
    /\ process_args = <<>>
    /\ tile_indices = <<>>
    /\ status = <<>>
    /\ wrng = <<>>
    /\ tiles = <<>>
    /\ film = NoFilm
    /\ writes = <<>>
    /\ overtaken = FALSE

IdleRender == IdleRenderWith({PathTracerInit(1, 3, <<1, 20>>)})

InitRenderWith(maxTiles) ==
    /\ integrator \in Integrators
    /\ master \in 0..MaxSeed
    /\ args \in [region : Regions, film_size : (0..MaxFilm) \X (0..MaxFilm),
                 n_tiles : 0..maxTiles, master : 0..MaxSeed]
    /\ args.master = master
    /\ pc = "call"
    /\ process_args = <<>>
    /\ tile_indices = <<>>
    /\ status = <<>>
    /\ wrng = <<>>
    /\ tiles = <<>>
    /\ film = NoFilm
    /\ writes = <<>>
    /\ overtaken = FALSE

\* lines 57-59: n_tiles <= 1, the whole film as one tile rendered by the driver itself
RenderSingle ==
    /\ pc = "call"
    /\ ~(args.n_tiles > 1)
    /\ LET seed == RngNext(master)
           params == [region |-> args.region, size |-> args.film_size, seed |-> seed]
       IN  /\ master' = seed
           /\ \E pre \in RngStates :
                 /\ film' = RenderTile(params, pre)
                 /\ wrng' = <<Reseed(pre, seed)>>
           /\ process_args' = <<params>>
    /\ pc' = "returned"
    /\ UNCHANGED <<integrator, args, tile_indices, status, tiles, writes, overtaken>>
    /\ UNCHANGED <<isectVars, traceVars, integrateVars, boundsVars>>

\* lines 61-91: n_tiles > 1, the ranges, the triples and the seeds, all before the pool
Prepare ==
    /\ pc = "call"
    /\ args.n_tiles > 1
    /\ LET n == args.n_tiles * args.n_tiles
       IN  /\ process_args' = [k \in 1..n |-> MakeProcessArg(args, master, k)]
           /\ tile_indices' = [k \in 1..n |-> MakeTileIndex(args, k)]
           /\ master' = RngAdvance(master, n)
           /\ status' = [k \in 1..n |-> "queued"]
           /\ wrng' = [k \in 1..n |-> 0]
           /\ tiles' = [k \in 1..n |-> <<>>]
    /\ pc' = "pool"
    /\ UNCHANGED <<integrator, args, film, writes, overtaken>>
    /\ UNCHANGED <<isectVars, traceVars, integrateVars, boundsVars>>

\* line 94: pool.map returns the results in the order of process_args, so the result
\* of task k is entry k whatever has ended before it
ResultSlotArrival(k, st) == 1 + Cardinality({j \in DOMAIN st : st[j] \in {"done", "failed"}})
ResultSlot(k, st) == k

\* line 94, a worker process takes the next task off the pool's queue and enters
\* render_tile: it seeds its own generator, which held any state before
StartTile(k) ==
    /\ pc = "pool"
    /\ status[k] = "queued"
    /\ \A j \in 1..(k - 1) : status[j] # "queued"
    /\ \E pre \in RngStates : wrng' = [wrng EXCEPT ![k] = Reseed(pre, process_args[k].seed)]
    /\ status' = [status EXCEPT ![k] = "running"]
    /\ UNCHANGED <<integrator, args, master, pc, process_args, tile_indices, tiles, film,
                   writes, overtaken>>
    /\ UNCHANGED <<isectVars, traceVars, integrateVars, boundsVars>>

\* line 94, the worker finishes render_tile and its tile (or its exception) goes back
FinishTile(k) ==
    /\ pc = "pool"
    /\ status[k] = "running"
    /\ IF TileRaises(process_args[k])
       THEN /\ status' = [status EXCEPT ![k] = "failed"]
            /\ UNCHANGED tiles
       ELSE /\ status' = [status EXCEPT ![k] = "done"]
            /\ tiles' = [tiles EXCEPT ![ResultSlot(k, status)] =
                                        RenderPixels(process_args[k], wrng[k])]
    /\ overtaken' = (overtaken \/ \E j \in 1..(k - 1) : status[j] = "running")
    /\ UNCHANGED <<integrator, args, master, pc, process_args, tile_indices, wrng, film,
                   writes>>
    /\ UNCHANGED <<isectVars, traceVars, integrateVars, boundsVars>>

\* lines 94-98: pool.map returns once every task has ended; it raises a task's
\* exception, else the driver stores each tile into its slice of the film
Assemble ==
    /\ pc = "pool"
    /\ \A k \in DOMAIN status : status[k] \in {"done", "failed"}
    /\ LET W == args.film_size[1]
           H == args.film_size[2]
           n == Len(process_args)
       IN  IF \/ \E k \in 1..n : status[k] = "failed"
              \/ \E k \in 1..n : StoreRaises(process_args[k], tile_indices[k], W, H)
           THEN pc' = "raised" /\ UNCHANGED <<film, writes>>
           ELSE /\ pc' = "returned"
                /\ film' = AssembleUpTo(n, tiles, tile_indices, W, H).film
                /\ writes' = AssembleUpTo(n, tiles, tile_indices, W, H).writes
    /\ UNCHANGED <<integrator, args, master, process_args, tile_indices, status, wrng, tiles,
                   overtaken>>
    /\ UNCHANGED <<isectVars, traceVars, integrateVars, boundsVars>>

NextRender ==
    \/ RenderSingle
    \/ Prepare
    \/ \E k \in DOMAIN status : StartTile(k)
    \/ \E k \in DOMAIN status : FinishTile(k)
    \/ Assemble

\* the same driver with the workers taking one task at a time
NextRenderOneByOne ==
    \/ RenderSingle
    \/ Prepare
    \/ \E k \in DOMAIN status : (\A j \in DOMAIN status : status[j] # "running") /\ StartTile(k)
    \/ \E k \in DOMAIN status : FinishTile(k)
    \/ Assemble

\* --------------------------------------------------------------------------
\* PathTracer.integrate_function: get_scattered_ray and trace
\* (integrators/path_tracer.py)
\* --------------------------------------------------------------------------
\* fractions <<num, den>>, den > 0, in lowest terms
RatNorm(a) ==
    LET g == Gcd(Abs(a[1]), a[2])
    IN  <<a[1] \div g, a[2] \div g>>
RatOf(x) == <<x, 1>>
RatMul(a, b) == RatNorm(<<a[1] * b[1], a[2] * b[2]>>)
RatAdd(a, b) == RatNorm(<<a[1] * b[2] + b[1] * a[2], a[2] * b[2]>>)
\* a / b for b > 0
RatDiv(a, b) == RatNorm(<<a[1] * b[2], a[2] * b[1]>>)
\* 1 - q
OneMinus(q) == RatNorm(<<q[2] - q[1], q[2]>>)

\* a Spectrum: three channels
Zeros == <<RatOf(0), RatOf(0), RatOf(0)>>
Ones == <<RatOf(1), RatOf(1), RatOf(1)>>
SpectrumOf(v) == <<RatOf(v[1]), RatOf(v[2]), RatOf(v[3])>>
SpectrumMul(a, b) == <<RatMul(a[1], b[1]), RatMul(a[2], b[2]), RatMul(a[3], b[3])>>
SpectrumAdd(a, b) == <<RatAdd(a[1], b[1]), RatAdd(a[2], b[2]), RatAdd(a[3], b[3])>>
SpectrumDiv(a, x) == <<RatDiv(a[1], x), RatDiv(a[2], x), RatDiv(a[3], x)>>

\* lines 71 and 84: li_sum += li * net_attenuation
AccumulateUnweighted(sum, li, net) == SpectrumAdd(sum, SpectrumOf(li))
Accumulate(sum, li, net) == SpectrumAdd(sum, SpectrumMul(SpectrumOf(li), net))

\* lines 73 and 86: np.any(attenuation > 0)
AnyPositive(attenuation) == \E c \in 1..3 : attenuation[c] > 0

\* line 79: the path goes on when `np.float32(np.random.uniform(0, 1)) <
\* russian_roulette_q`
RoulettePasses(u, q) == RatLess(u, q)

\* lines 47-59; the offset EPSILON of the origin is below the grid's resolution
GetScatteredRay(r, i) == [o |-> i.p, d |-> i.d_out, t_max |-> Inf]

\* the draws of np.random.uniform(0, 1) the model takes
UDraws == {<<0, 1>>, <<1, 4>>, <<3, 4>>}

\* russian_roulette_q inside (0, 1)
Qs == {<<1, 20>>, <<1, 2>>}

TraceIntegrators == {PathTracerInit(1, n, q) : n \in 0..MaxSteps, q \in Qs}

NoLog == [intersects |-> 0, scatters |-> 0, roulette |-> "none", u |-> <<0, 1>>,
          net_before |-> Ones]

IdleTrace ==
    /\ tpc = "idle"
    /\ step = 0
    /\ li_sum = Zeros
    /\ net_attenuation = Ones
    /\ tlog = NoLog

\* lines 62-65 and 121: trace entered with a fresh ray
InitTrace ==
    /\ entities \in Scenes
    /\ ray \in {r \in Rays : r.t_max = Inf}
    /\ interaction = EmptyInteraction
    /\ last = NoCall
    /\ tpc = "running"
    /\ step = 0
    /\ li_sum = Zeros
    /\ net_attenuation = Ones
    /\ tlog = NoLog

\* what follows a hit in both loops (lines 70-76 and 82-89), with net the
\* net_attenuation the hit is weighted by
AfterHit(res, net, roulette, u) ==
    LET li == res.interaction.li
        attenuation == res.interaction.attenuation
    IN  /\ li_sum' = Accumulate(li_sum, li, net)
        /\ IF ~AnyPositive(attenuation)
           THEN /\ tpc' = "returned"
                /\ net_attenuation' = net
                /\ ray' = res.ray
                /\ step' = step
                /\ tlog' = [tlog EXCEPT !.intersects = @ + 1, !.roulette = roulette, !.u = u,
                                        !.net_before = net_attenuation]
           ELSE /\ tpc' = "running"
                /\ net_attenuation' = SpectrumMul(net, SpectrumOf(attenuation))
                /\ ray' = GetScatteredRay(res.ray, res.interaction)
                /\ step' = IF step < integrator.n_steps THEN step + 1 ELSE step
                /\ tlog' = [tlog EXCEPT !.intersects = @ + 1, !.scatters = @ + 1,
                                        !.roulette = roulette, !.u = u,
                                        !.net_before = net_attenuation]

AfterMiss(res, roulette, u) ==
    /\ tpc' = "returned"
    /\ ray' = res.ray
    /\ tlog' = [tlog EXCEPT !.intersects = @ + 1, !.roulette = roulette, !.u = u,
                            !.net_before = net_attenuation]
    /\ UNCHANGED <<step, li_sum, net_attenuation>>

\* lines 67-76: one iteration of `for _ in range(n_steps)`
GuaranteedStep ==
    /\ tpc = "running"
    /\ step < integrator.n_steps
    /\ LET res == FlatAggregateIntersect(entities, ray, interaction)
       IN  /\ interaction' = res.interaction
           /\ last' = [kind |-> "aggregate", child |-> 0, ret |-> res.hit,
                       calls |-> res.calls, ray |-> ray, interaction |-> interaction]
           /\ IF ~res.hit
              THEN AfterMiss(res, "none", tlog.u)
              ELSE AfterHit(res, net_attenuation, "none", tlog.u)
    /\ UNCHANGED <<entities, renderVars, integrateVars, boundsVars>>

\* lines 78-89: one iteration of `while True`, with u the draw of line 79
RouletteStep ==
    /\ tpc = "running"
    /\ ~(step < integrator.n_steps)
    /\ \E u \in UDraws :
          IF ~RoulettePasses(u, integrator.russian_roulette_q)
          THEN \* `or` does not evaluate entity_intersect
               /\ tpc' = "returned"
               /\ tlog' = [tlog EXCEPT !.roulette = "stop", !.u = u,
                                       !.net_before = net_attenuation]
               /\ UNCHANGED <<ray, interaction, last, step, li_sum, net_attenuation>>
          ELSE LET res == FlatAggregateIntersect(entities, ray, interaction)
               IN  /\ interaction' = res.interaction
                   /\ last' = [kind |-> "aggregate", child |-> 0, ret |-> res.hit,
                               calls |-> res.calls, ray |-> ray,
                               interaction |-> interaction]
                   /\ IF ~res.hit
                      THEN AfterMiss(res, "pass", u)
                      ELSE AfterHit(res,
                                    SpectrumDiv(net_attenuation,
                                                OneMinus(integrator.russian_roulette_q)),
                                    "pass", u)
    /\ UNCHANGED <<entities, renderVars, integrateVars, boundsVars>>

NextTrace == GuaranteedStep \/ RouletteStep

\* --------------------------------------------------------------------------
\* PathTracer.integrate_function: integrate  (integrators/path_tracer.py)
\* --------------------------------------------------------------------------
\* the orderings np.random.shuffle can leave in np.arange(n)
Shuffles(n) ==
    {f \in [1..n -> 0..(n - 1)] : \A a, b \in 1..n : f[a] = f[b] => a = b}

\* line 112: k += np.uint32(1); k stays far below the wrap of uint32
KStuck(i) == i
KNext(i) == i + 1

\* np.random.uniform(lo, hi) on the grid: a point of [lo, hi)
UniformPoints(lo, hi) == IF hi > lo THEN lo..(hi - 1) ELSE {lo}

\* Angles are counted in units of which 4 make one angular bin, so that
\* angle_range[i] = 4 * i and a quarter turn is n_samples^2 units.
\* np.random.uniform(angle_min, angle_max) for bin i:
AnglesOfBin(i) == (4 * i)..(4 * i + 3)

\* lines 119-120: (cos(angle), sin(angle)), rounded to the nearest axis direction
AxisDir(angle, n_samples) ==
    LET quarter == ((2 * angle + Sq(n_samples)) \div (2 * Sq(n_samples))) % 4
    IN  CASE quarter = 0 -> <<1, 0>>
          [] quarter = 1 -> <<0, 1>>
          [] quarter = 2 -> <<-1, 0>>
          [] OTHER -> <<0, -1>>

\* what an unchecked read past the end of angle_order can give
OutOfBounds(n) == {0 - 1, n}

\* the pixel region integrate is called on
PixelRegion == <<<<0 - MaxCoord, 0 - MaxCoord>>, <<MaxCoord, MaxCoord>>>>

IntegrateScenes ==
    {s \in Scenes : \A c \in 1..Len(s) : s[c].center = <<0, 0>>}

IntegrateIntegrators ==
    {PathTracerInit(n, s, <<1, 2>>) : n \in 0..MaxSamples, s \in 0..1}

IdleIntegrate ==
    /\ ipc = "idle"
    /\ pixel = <<<<0, 0>>, <<0, 0>>>>
    /\ angle_order = <<>>
    /\ angle_k = 0
    /\ cell = <<0, 0>>
    /\ samples = <<>>
    /\ pix_sum = Zeros
    /\ valid_count = 0
    /\ result = Uninit

\* integrate called on a pixel
InitIntegrate ==
    /\ entities \in IntegrateScenes
    /\ ray = [o |-> <<0, 0>>, d |-> <<0, 0>>, t_max |-> 0]
    /\ interaction = EmptyInteraction
    /\ last = NoCall
    /\ IdleTrace
    /\ ipc = "start"
    /\ pixel = PixelRegion
    /\ angle_order = <<>>
    /\ angle_k = 0
    /\ cell = <<0, 0>>
    /\ samples = <<>>
    /\ pix_sum = Zeros
    /\ valid_count = 0
    /\ result = Uninit

\* lines 93-103: the ranges, the shuffled angle_order and the counters
IntegrateBegin ==
    /\ ipc = "start"
    /\ angle_order' \in Shuffles(Sq(integrator.n_samples))
    /\ angle_k' = 0
    /\ pix_sum' = Zeros
    /\ valid_count' = 0
    /\ cell' = <<0, 0>>
    /\ ipc' = IF integrator.n_samples > 0 THEN "sampling" ELSE "finish"
    /\ UNCHANGED <<pixel, samples, result>>
    /\ UNCHANGED <<isectVars, renderVars, traceVars, boundsVars>>

\* lines 105-123: the loop body for cell (row, col) up to the call of trace, which
\* starts on the new ray (lines 63-65)
DrawRay ==
    /\ ipc = "sampling"
    /\ LET n == integrator.n_samples
           row == cell[1]
           col == cell[2]
           y_min == Linspace(pixel[1][2], pixel[2][2], n, row)
           y_max == Linspace(pixel[1][2], pixel[2][2], n, row + 1)
           x_min == Linspace(pixel[1][1], pixel[2][1], n, col)
           x_max == Linspace(pixel[1][1], pixel[2][1], n, col + 1)
       IN  \E i_angle \in (IF angle_k < Len(angle_order) THEN {angle_order[angle_k + 1]}
                           ELSE OutOfBounds(Sq(n))) :
             \E x \in UniformPoints(x_min, x_max), y \in UniformPoints(y_min, y_max),
                angle \in AnglesOfBin(i_angle) :
                 /\ ray' = [o |-> <<x, y>>, d |-> AxisDir(angle, n), t_max |-> Inf]
                 /\ samples' = Append(samples, [cell |-> cell, k |-> angle_k, bin |-> i_angle])
    /\ angle_k' = KNext(angle_k)
    /\ interaction' = EmptyInteraction
    /\ tpc' = "running"
    /\ step' = 0
    /\ li_sum' = Zeros
    /\ net_attenuation' = Ones
    /\ tlog' = NoLog
    /\ ipc' = "tracing"
    /\ UNCHANGED <<entities, last, pixel, angle_order, cell, pix_sum, valid_count, result>>
    /\ UNCHANGED <<renderVars, boundsVars>>

\* np.all(np.isfinite(li)): every value the model computes is finite
AllFinite(li) == \A c \in 1..3 : li[c][2] > 0

\* lines 123-126 and the loop headers of lines 105 and 108: trace has returned
AccumulateSample ==
    /\ ipc = "tracing"
    /\ tpc = "returned"
    /\ IF AllFinite(li_sum)
       THEN /\ pix_sum' = SpectrumAdd(pix_sum, li_sum)
            /\ valid_count' = valid_count + 1
       ELSE UNCHANGED <<pix_sum, valid_count>>
    /\ LET n == integrator.n_samples
           next == IF cell[2] + 1 < n THEN <<cell[1], cell[2] + 1>> ELSE <<cell[1] + 1, 0>>
       IN  /\ cell' = next
           /\ ipc' = IF next[1] < n THEN "sampling" ELSE "finish"
    /\ tpc' = "idle"
    /\ UNCHANGED <<pixel, angle_order, angle_k, samples, result>>
    /\ UNCHANGED <<isectVars, renderVars, step, li_sum, net_attenuation, tlog, boundsVars>>

\* line 128: li_sum / np.float32(valid_count); 0 / 0 is NaN
IntegrateReturn ==
    /\ ipc = "finish"
    /\ result' = IF valid_count = 0 THEN <<NaN, NaN, NaN>>
                 ELSE SpectrumDiv(pix_sum, RatOf(valid_count))
    /\ ipc' = "returned"
    /\ UNCHANGED <<pixel, angle_order, angle_k, cell, samples, pix_sum, valid_count>>
    /\ UNCHANGED <<isectVars, renderVars, traceVars, boundsVars>>

NextIntegrate ==
    \/ IntegrateBegin
    \/ DrawRay
    \/ GuaranteedStep
    \/ RouletteStep
    \/ AccumulateSample
    \/ IntegrateReturn

\* --------------------------------------------------------------------------
\* aligned_box_union (core/utils.py) and the bounds properties
\* --------------------------------------------------------------------------
\* union_box after lines 14-15: (+inf, +inf), (-inf, -inf)
EmptyBox == <<<<Inf, Inf>>, <<NegInf, NegInf>>>>

\* circle.py lines 26-27: np.stack((center - radius, center + radius))
CircleGetBounds(center, radius) ==
    <<<<center[1] - radius, center[2] - radius>>, <<center[1] + radius, center[2] + radius>>>>

\* simple_entity.py lines 25-26: the shape's bounds
SimpleEntityGetBounds(e) == CircleGetBounds(e.center, e.radius)

\* np.min(a, axis) and np.max(a, axis) of lines 17-18.  The second positional argument
\* of np.min and np.max is the axis to reduce over; the row box[0] (box[1]) of float32
\* passed there is not an axis, and numpy raises TypeError.
NpMin(a, axis) == [raises |-> "TypeError", value |-> Uninit]
NpMax(a, axis) == [raises |-> "TypeError", value |-> Uninit]

\* the loop of lines 16-18 from box k on; an exception leaves the function
RECURSIVE UnionLoop(_, _, _)
UnionLoop(union_box0, bs, k) ==
    IF k > Len(bs) THEN [raises |-> "", value |-> union_box0]
    ELSE LET lo == NpMin(union_box0[1], bs[k][1])
         IN  IF lo.raises # "" THEN [raises |-> lo.raises, value |-> Uninit]
             ELSE LET hi == NpMax(union_box0[2], bs[k][2])
                  IN  IF hi.raises # "" THEN [raises |-> hi.raises, value |-> Uninit]
                      ELSE UnionLoop(<<lo.value, hi.value>>, bs, k + 1)

\* lines 12-19
AlignedBoxUnion(bs) == UnionLoop(EmptyBox, bs, 1)

\* flat_aggregate.py lines 24-26: aligned_box_union(e.bounds for e in self.entities)
FlatAggregateBounds(children) ==
    AlignedBoxUnion([k \in 1..Len(children) |-> SimpleEntityGetBounds(children[k])])

\* the boxes aligned_box_union is called on: bounds of the entities, the empty box,
\* and a union of two of them
BoxPool ==
    {SimpleEntityGetBounds(e) : e \in EntityPool}
        \cup {EmptyBox, <<<<0 - 1, 0 - 2>>, <<3, 2>>>>}
BoxLists == UNION {[1..n -> BoxPool] : n \in 0..MaxBoxes}

IdleBounds ==
    /\ boxes = <<>>
    /\ upc = "idle"
    /\ ucall = "none"
    /\ union_box = Uninit

InitBounds ==
    /\ entities \in Scenes
    /\ ray = [o |-> <<0, 0>>, d |-> <<0, 0>>, t_max |-> 0]
    /\ interaction = EmptyInteraction
    /\ last = NoCall
    /\ boxes \in BoxLists
    /\ upc = "idle"
    /\ ucall = "none"
    /\ union_box = Uninit

\* how a call ends: the value returned, or the exception
Returned(kind, res) ==
    /\ upc = "idle"
    /\ ucall' = kind
    /\ upc' = IF res.raises # "" THEN "raised" ELSE "returned"
    /\ union_box' = res.value
    /\ UNCHANGED <<boxes, isectVars, renderVars, traceVars, integrateVars>>

\* aligned_box_union(boxes)
CallAlignedBoxUnion == Returned("union", AlignedBoxUnion(boxes))

\* FlatAggregate(entities).bounds
CallFlatAggregateBounds == Returned("bounds", FlatAggregateBounds(entities))

NextBounds ==
    \/ CallAlignedBoxUnion
    \/ CallFlatAggregateBounds

vars == <<isectVars, renderVars, traceVars, integrateVars, boundsVars>>

\* rays and scenes under the intersect functions
InitSpecIntersect ==
    InitIntersect /\ IdleRender /\ IdleTrace /\ IdleIntegrate /\ IdleBounds
SpecIntersect == InitSpecIntersect /\ [][NextIntersect]_vars

\* a render call with its pool of worker processes
InitSpecRender ==
    IdleIntersect /\ InitRenderWith(MaxTiles) /\ IdleTrace /\ IdleIntegrate /\ IdleBounds
SpecRender == InitSpecRender /\ [][NextRender]_vars

\* a render call on finer tile grids, the workers taking one task at a time
InitSpecTiling ==
    IdleIntersect /\ InitRenderWith(MaxGridTiles) /\ IdleTrace /\ IdleIntegrate /\ IdleBounds
SpecTiling == InitSpecTiling /\ [][NextRenderOneByOne]_vars

\* a trace call on a fresh ray
InitSpecTrace ==
    InitTrace /\ IdleRenderWith(TraceIntegrators) /\ IdleIntegrate /\ IdleBounds
SpecTrace == InitSpecTrace /\ [][NextTrace]_vars

\* an integrate call on a pixel, with the trace calls it makes
InitSpecIntegrate == InitIntegrate /\ IdleRenderWith(IntegrateIntegrators) /\ IdleBounds
SpecIntegrate == InitSpecIntegrate /\ [][NextIntegrate]_vars

\* calls of aligned_box_union and of FlatAggregate.bounds
InitSpecBounds == InitBounds /\ IdleRender /\ IdleTrace /\ IdleIntegrate
SpecBounds == InitSpecBounds /\ [][NextBounds]_vars

\* --------------------------------------------------------------------------
\* Claims about the intersection protocol (checked under SpecIntersect)
\* --------------------------------------------------------------------------
\* what child k alone reports on the ray and interaction the last call was given
ChildAlone(k) == SimpleEntityIntersect(entities[k], last.ray, last.interaction)

HitChildren == {k \in 1..Len(entities) : ChildAlone(k).hit}

\* the orderings of a sequence
PermsOf(seq) ==
    LET n == Len(seq)
        bij == {f \in [1..n -> 1..n] : \A a, b \in 1..n : f[a] = f[b] => a = b}
    IN  {[k \in 1..n |-> seq[f[k]]] : f \in bij}

\* C1: a FlatAggregate.intersect call invokes every child in order (no short-circuit),
\* returns the disjunction of their results, and leaves in ray.t_max the least hit
\* parameter over the children the ray hits and in the interaction the hit of such a
\* nearest child.
C1_AggregateNearestHit ==
    last.kind = "aggregate" =>
        /\ last.calls = [k \in 1..Len(entities) |-> k]
        /\ last.ret = (HitChildren # {})
        /\ HitChildren # {} =>
              \E k \in HitChildren :
                  /\ \A j \in HitChildren : ChildAlone(k).ray.t_max <= ChildAlone(j).ray.t_max
                  /\ ray.t_max = ChildAlone(k).ray.t_max
                  /\ interaction = ChildAlone(k).interaction

\* C2: a FlatAggregate.intersect call gives the same return value, the same final
\* ray.t_max and the same reported hit (p, n, li, attenuation) as the call on any
\* other ordering of the same children would.
C2_PermutationInvariant ==
    last.kind = "aggregate" =>
        \A perm \in PermsOf(entities) :
            LET res == FlatAggregateIntersect(perm, last.ray, last.interaction)
            IN  /\ res.hit = last.ret
                /\ res.ray.t_max = ray.t_max
                /\ res.interaction.p = interaction.p
                /\ res.interaction.n = interaction.n
                /\ res.interaction.li = interaction.li
                /\ res.interaction.attenuation = interaction.attenuation

\* C7: after an intersect call of a Circle, a SimpleEntity or a FlatAggregate on a ray
\* with t_max >= 0, ray.t_max is at most what it was before the call, and it is
\* strictly smaller exactly when the call returned true.
C7_TMaxMonotone ==
    last.kind # "none" =>
        /\ ray.t_max <= last.ray.t_max
        /\ (ray.t_max < last.ray.t_max) <=> last.ret

\* an aggregate call that hit on a ray whose t_max was already finite, next to
\* calls that missed
C7_Witness ==
    /\ last.kind = "aggregate"
    /\ last.ret
    /\ last.ray.t_max < Inf
    /\ 0 < ray.t_max
    /\ ray.t_max < last.ray.t_max
    /\ \E k \in 1..Len(entities) : ~ChildAlone(k).hit
\* --------------------------------------------------------------------------
\* Claims about the render driver
\* --------------------------------------------------------------------------
FilmW == args.film_size[1]
FilmH == args.film_size[2]
FilmPixels == (0..(FilmH - 1)) \X (0..(FilmW - 1))
Dispatched == pc \in {"pool", "returned", "raised"} /\ args.n_tiles > 1

InvalidConfig ==
    \/ integrator.n_samples <= 0
    \/ ~(RatLess(<<0, 1>>, integrator.russian_roulette_q)
         /\ RatLess(integrator.russian_roulette_q, <<1, 1>>))
    \/ args.region[1][1] >= args.region[2][1]
    \/ args.region[1][2] >= args.region[2][2]
    \/ FilmW <= 0 \/ FilmH <= 0
    \/ args.n_tiles <= 0

\* C3 (checked under SpecTiling): for W, H >= 1 and T > 1 (and an otherwise valid
\* integrator and region) the column and row
\* boundaries are non-decreasing from 0 to W (resp. H) with every range but the last
\* of width ceil(W/T) (resp. ceil(H/T)), so every tile has a non-negative size equal to
\* the size of its film slice, and the tiles write every film pixel exactly once.
C3_TilesPartitionFilm ==
    (Dispatched /\ ~InvalidConfig) =>
        LET T == args.n_tiles
            n == T * T
        IN  /\ \A k \in 1..n :
                 LET rows == tile_indices[k][1]
                     cols == tile_indices[k][2]
                     i == TileIJ(k, T)[1]
                     j == TileIJ(k, T)[2]
                 IN  /\ rows[1] <= rows[2] /\ cols[1] <= cols[2]
                     /\ (i = 0) => rows[1] = 0
                     /\ (j = 0) => cols[1] = 0
                     /\ (i = T - 1) => rows[2] = FilmH
                     /\ (j = T - 1) => cols[2] = FilmW
                     /\ (i < T - 1) => rows[2] - rows[1] = CeilDiv(FilmH, T)
                     /\ (j < T - 1) => cols[2] - cols[1] = CeilDiv(FilmW, T)
                     /\ process_args[k].size[1] >= 0 /\ process_args[k].size[2] >= 0
                     /\ SliceShape(tile_indices[k], FilmW, FilmH)
                            = <<process_args[k].size[2], process_args[k].size[1]>>
            /\ pc # "raised"
            /\ pc = "returned" => \A px \in FilmPixels : writes[px] = 1

\* C5 (checked under SpecRender): with n_samples <= 0, q outside (0, 1), a region with
\* x0 >= x1 or y0 >= y1, a film dimension <= 0 or n_tiles <= 0, the call is rejected
\* and no film is produced.
C5_InvalidConfigRejected ==
    InvalidConfig => (film = NoFilm /\ pc \notin {"pool", "returned"})

\* C8 (checked under SpecRender): for n_tiles > 1, in whatever order the workers
\* start and end, the result kept for task k is the tile rendered from the k-th
\* triple alone, the film exists only once every task has ended, and the assembled
\* film holds tile k at the k-th pixel range.
C8_TileOrderIndependent ==
    Dispatched =>
        /\ \A k \in DOMAIN status :
              status[k] = "done" => tiles[k] = RenderTile(process_args[k], 0)
        /\ film # NoFilm => \A k \in DOMAIN status : status[k] = "done"
        /\ pc = "returned" =>
              \A k \in DOMAIN status :
                  \A px \in SlicePixels(tile_indices[k], FilmW, FilmH) :
                      film[px] = RenderTile(process_args[k], 0)
                                    [<<px[1] - tile_indices[k][1][1],
                                       px[2] - tile_indices[k][2][1]>>]

\* a film assembled from four non-empty tiles after a task ended before an earlier one
C8_Witness ==
    /\ pc = "returned"
    /\ args.n_tiles > 1
    /\ overtaken
    /\ \A k \in DOMAIN status : process_args[k].size[1] > 0 /\ process_args[k].size[2] > 0

\* the film a render call gives when every tile is rendered alone, in order, from the
\* seeds drawn in row-major order from the master generator state m
ReferenceFilm(a, m) ==
    IF ~(a.n_tiles > 1)
    THEN RenderPixels([region |-> a.region, size |-> a.film_size, seed |-> RngNext(m)],
                      RngNext(m))
    ELSE LET n == a.n_tiles * a.n_tiles
             ref == [k \in 1..n |-> RenderPixels(MakeProcessArg(a, m, k), SeedAt(m, k))]
         IN  AssembleUpTo(n, ref, [k \in 1..n |-> MakeTileIndex(a, k)],
                          a.film_size[1], a.film_size[2]).film

\* C9 (checked under SpecRender): every tile seed has been drawn from the master
\* generator, in row-major order, before any task starts; a worker's generator holds
\* its tile's seed when it starts on the pixels; and the film returned is a function
\* of the master generator's state at the call and of the arguments alone.
C9_SeededDeterministicFilm ==
    /\ Dispatched =>
          LET n == args.n_tiles * args.n_tiles
          IN  /\ Len(process_args) = n
              /\ master = RngAdvance(args.master, n)
              /\ \A k \in 1..n :
                    /\ process_args[k].seed = SeedAt(args.master, k)
                    /\ status[k] = "running" => wrng[k] = process_args[k].seed
    /\ pc = "returned" => film = ReferenceFilm(args, args.master)

\* a film of four non-empty tiles returned after the workers ended out of order
C9_Witness ==
    /\ pc = "returned"
    /\ args.n_tiles > 1
    /\ overtaken
    /\ FilmW >= 2 /\ FilmH >= 2
    /\ film = ReferenceFilm(args, args.master)
    /\ \E p1, p2 \in FilmPixels : film[p1] # film[p2]
\* --------------------------------------------------------------------------
\* Claims about trace (checked under SpecTrace)
\* --------------------------------------------------------------------------
\* C4: in the Russian-roulette loop the path is stopped exactly when the draw u is
\* below russian_roulette_q (so with probability q), and goes on otherwise, the net
\* attenuation then divided by 1 - q.
C4_RouletteStopsBelowQ ==
    tlog.roulette # "none" =>
        /\ (tlog.roulette = "stop") <=> RatLess(tlog.u, integrator.russian_roulette_q)
        /\ (tlog.roulette = "pass" /\ last.ret) =>
              net_attenuation =
                  SpectrumDiv(tlog.net_before, OneMinus(integrator.russian_roulette_q))

\* the li of the lights the traced ray hits, as radiance values
HitLights == {SpectrumOf(entities[k].li) : k \in HitChildren}

\* C6 as stated: with only ConstantLight entities, the radiance trace returns is zero
\* or exactly the li of a light the ray hit, for every n_steps (0 included) and q.
C6_RadianceIsLiOrZero ==
    tpc = "returned" => (li_sum = Zeros \/ li_sum \in HitLights)

\* C6 as amended: the radiance trace returns is zero, or exactly the li of a light
\* the ray hit when n_steps >= 1, or that li divided by 1 - q when n_steps = 0 (the
\* hit is then found in the Russian-roulette loop).
C6_RadianceIsWeightedLiOrZero ==
    tpc = "returned" =>
        \/ li_sum = Zeros
        \/ /\ integrator.n_steps >= 1
           /\ tlog.intersects = 1
           /\ li_sum \in HitLights
        \/ /\ integrator.n_steps = 0
           /\ tlog.intersects = 1
           /\ \E l \in HitLights :
                 li_sum = SpectrumDiv(l, OneMinus(integrator.russian_roulette_q))

\* a trace with n_steps = 0 that returned the weighted li of the nearer of two lights
C6_Witness ==
    /\ tpc = "returned"
    /\ integrator.n_steps = 0
    /\ tlog.roulette = "pass"
    /\ last.ret
    /\ Cardinality(HitChildren) >= 2
    /\ li_sum # Zeros
    /\ li_sum \notin HitLights
\* --------------------------------------------------------------------------
\* Claims about integrate (checked under SpecIntegrate)
\* --------------------------------------------------------------------------
SampleCount == Sq(integrator.n_samples)

\* the grid points of sub-cell (row, col) of the pixel
CellPoints(c) ==
    LET n == integrator.n_samples
    IN  UniformPoints(Linspace(pixel[1][1], pixel[2][1], n, c[2]),
                      Linspace(pixel[1][1], pixel[2][1], n, c[2] + 1))
        \X UniformPoints(Linspace(pixel[1][2], pixel[2][2], n, c[1]),
                         Linspace(pixel[1][2], pixel[2][2], n, c[1] + 1))

\* C10: for n_samples = N >= 1 and every outcome of the shuffle, the rays drawn so far
\* took the sub-cells in row-major order, one ray each with its origin in its cell,
\* with distinct angular bins, every index into angle_order and angle_range in
\* bounds; and when integrate is through it has drawn exactly N * N rays, so that
\* cells and bins are matched one to one.
C10_OneRayPerCellAndBin ==
    integrator.n_samples >= 1 =>
        LET n == integrator.n_samples
        IN  /\ \A m \in 1..Len(samples) :
                  /\ samples[m].cell = <<(m - 1) \div n, (m - 1) % n>>
                  /\ samples[m].k = m - 1
                  /\ samples[m].k < Len(angle_order)
                  /\ samples[m].bin \in 0..(SampleCount - 1)
                  /\ \A j \in 1..Len(samples) : samples[j].bin = samples[m].bin => j = m
            /\ Len(samples) <= SampleCount
            /\ ipc = "tracing" => ray.o \in CellPoints(samples[Len(samples)].cell)
            /\ ipc \in {"finish", "returned"} =>
                  /\ Len(samples) = SampleCount
                  /\ {samples[m].bin : m \in 1..Len(samples)} = 0..(SampleCount - 1)

\* integrate through with N = 2: four rays, the bins not in the order of the cells
C10_Witness ==
    /\ ipc = "returned"
    /\ integrator.n_samples = 2
    /\ Len(samples) = 4
    /\ samples[1].bin = 3
    /\ samples[4].bin = 1
    /\ valid_count = 4
\* --------------------------------------------------------------------------
\* Claims about bounds (checked under SpecBounds)
\* --------------------------------------------------------------------------
MinOf(S) == CHOOSE x \in S : \A y \in S : x <= y
MaxOf(S) == CHOOSE x \in S : \A y \in S : x >= y

\* the component-wise union: (min of mins, max of maxes), the empty box for no boxes
ComponentwiseUnion(bs) ==
    LET ks == 1..Len(bs)
    IN  <<<<MinOf({Inf} \cup {bs[k][1][1] : k \in ks}),
            MinOf({Inf} \cup {bs[k][1][2] : k \in ks})>>,
          <<MaxOf({NegInf} \cup {bs[k][2][1] : k \in ks}),
            MaxOf({NegInf} \cup {bs[k][2][2] : k \in ks})>>>>

\* the boxes the call that has ended was made on
CalledOn ==
    IF ucall = "bounds"
    THEN [k \in 1..Len(entities) |-> SimpleEntityGetBounds(entities[k])]
    ELSE boxes

\* C11: a FlatAggregate's bounds, and aligned_box_union of any boxes, is the
\* component-wise union (min of mins, max of maxes) of the boxes; of no boxes it is
\* the empty box, and joining the empty box to a box B gives B.
C11_BoundsIsUnion ==
    upc # "idle" =>
        /\ upc = "returned"
        /\ union_box = ComponentwiseUnion(CalledOn)
        /\ (ucall = "union" /\ Len(boxes) = 2 /\ boxes[2] = EmptyBox) => union_box = boxes[1]
\* --------------------------------------------------------------------------
\* Claims about ConstantLight in trace (checked under SpecTrace)
\* --------------------------------------------------------------------------
\* the child whose hit the aggregate reported: the last one it invoked
ReportedChild == last.calls[Len(last.calls)]

\* C12: a hit on a ConstantLight ends the path.  scatter has written li = L and an
\* attenuation with no positive component and has not written d_out; trace has added
\* the emission (times the net attenuation) and returned, get_scattered_ray was never
\* called, and no further step of trace (so no further intersect call) can follow.
\* This holds for a hit in the guaranteed loop and in the Russian-roulette loop.
C12_LightHitEndsPath ==
    /\ tlog.scatters = 0
    /\ (last.kind = "aggregate" /\ last.ret) =>
          /\ interaction.li = entities[ReportedChild].li
          /\ \A c \in 1..3 : ~(interaction.attenuation[c] > 0)
          /\ interaction.d_out = last.interaction.d_out
          /\ interaction.d_out = Uninit
          /\ tpc = "returned"
          /\ li_sum = SpectrumMul(SpectrumOf(interaction.li), net_attenuation)
          /\ ray.d = last.ray.d
          /\ ~ENABLED NextTrace

\* a light hit in the guaranteed loop, the light being the second child invoked
C12_Witness ==
    /\ last.kind = "aggregate"
    /\ last.ret
    /\ integrator.n_steps >= 1
    /\ tlog.roulette = "none"
    /\ tlog.intersects = 1
    /\ ReportedChild = 2
    /\ tpc = "returned"
\* --------------------------------------------------------------------------
\* Claims about Circle.intersect (checked under SpecIntersect)
\* --------------------------------------------------------------------------
\* the circle the last call was made on, and the ray it was given
LastCircle == entities[last.child]
LastDNorm == Norm(last.ray.d)

\* the ray/circle equation |o + d t - center|^2 = radius^2 of the last call, with d_oc
\* the projection of center - o on the unit direction: discriminant and roots
LastDOc ==
    Dot(<<last.ray.d[1] \div LastDNorm, last.ray.d[2] \div LastDNorm>>,
        Sub(LastCircle.center, last.ray.o))
Discriminant ==
    Sq(LastDOc) - Dot(Sub(LastCircle.center, last.ray.o), Sub(LastCircle.center, last.ray.o))
        + Sq(LastCircle.radius)
Root1 == (TScale * (LastDOc - ISqrt(Discriminant))) \div LastDNorm
Root2 == (TScale * (LastDOc + ISqrt(Discriminant))) \div LastDNorm
Inside(t) == 0 < t /\ t < last.ray.t_max

\* C13: a Circle.intersect call reports a hit exactly when one of the two roots
\* t1 <= t2 of the ray/circle equation lies strictly inside (0, t_max), and then writes
\* the smallest such root to ray.t_max: t1 when 0 < t1 < t_max, otherwise t2 (then
\* t1 <= 0 and 0 < t2 < t_max).  A negative discriminant, t1 >= t_max (t1 = t_max
\* included), a root at exactly 0 with no other root inside (0, t_max), and a
\* zero-length direction give a miss; a parameter of 0 is never reported.
C13_CircleHitIsSmallestRootInside ==
    last.kind = "circle" =>
        IF LastDNorm = 0 \/ Discriminant < 0 THEN ~last.ret
        ELSE /\ Root1 <= Root2
             /\ last.ret <=> (Inside(Root1) \/ Inside(Root2))
             /\ last.ret =>
                   /\ ray.t_max = (IF Inside(Root1) THEN Root1 ELSE Root2)
                   /\ Inside(Root1) \/ (Root1 <= 0 /\ Inside(Root2))
                   /\ ray.t_max # 0
             /\ Root1 >= last.ray.t_max => ~last.ret
             /\ (Root2 = 0 \/ (Root1 = 0 /\ ~Inside(Root2))) => ~last.ret

\* a hit from inside the circle: t1 <= 0 and the second root written
C13_Witness ==
    /\ last.kind = "circle"
    /\ last.ret
    /\ LastDNorm = 2
    /\ Root1 < 0
    /\ Inside(Root2)
    /\ ray.t_max = Root2
    /\ last.ray.t_max = 3 * TScale
\* --------------------------------------------------------------------------
\* Claims about what a call may change (checked under SpecIntersect)
\* --------------------------------------------------------------------------
\* what the shape of the child of the last call reports on the call's arguments
ShapeAlone ==
    CircleIntersect(LastCircle.center, LastCircle.radius, last.ray, last.interaction)

\* C14: an intersect call of a Circle, a SimpleEntity or a FlatAggregate never changes
\* the ray's origin or direction; a call that returns false leaves the whole ray and
\* the whole interaction as they were; a Circle hit changes only ray.t_max and the
\* interaction's p and n; and the material's scatter, which a SimpleEntity calls only
\* after its shape has hit, leaves the ray and p, n as the shape left them (only li,
\* attenuation and d_out may differ).
C14_FrameOfIntersect ==
    last.kind # "none" =>
        /\ ray.o = last.ray.o
        /\ ray.d = last.ray.d
        /\ ~last.ret => (ray = last.ray /\ interaction = last.interaction)
        /\ (last.kind = "circle" /\ last.ret) =>
              /\ interaction.li = last.interaction.li
              /\ interaction.attenuation = last.interaction.attenuation
              /\ interaction.d_out = last.interaction.d_out
        /\ last.kind = "simple" =>
              /\ last.ret = ShapeAlone.hit
              /\ ray = ShapeAlone.ray
              /\ interaction.p = ShapeAlone.interaction.p
              /\ interaction.n = ShapeAlone.interaction.n

\* a Circle hit on an interaction that an earlier entity hit had filled: li and
\* attenuation are kept while p moves
C14_Witness ==
    /\ last.kind = "circle"
    /\ last.ret
    /\ last.interaction.li # Uninit
    /\ interaction.li = last.interaction.li
    /\ interaction.p # last.interaction.p
    /\ ray.t_max < last.ray.t_max
====
